---- MODULE Spec2Model ----
(***************************************************************************)
(* State-machine model of the file server in src/app.py: the accounts map, *)
(* the per-client sessions, the managed directory (with the JSON records   *)
(* that live in it) and the file statistics map, with one action per       *)
(* request handler.                                                        *)
(*                                                                         *)
(* File names and paths are sequences of one-character strings, so that    *)
(* os.path.join, path resolution, rsplit and lower are computed and not    *)
(* looked up.  Usernames, passwords and roles are plain strings.           *)
(***************************************************************************)
EXTENDS Integers, Sequences, FiniteSets, TLC

VARIABLES
    fs,          \* the filesystem: resolved path -> file content
    users,       \* app.py:90  the in-memory accounts map
    file_stats,  \* app.py:91  the in-memory statistics map
    session,     \* the flask session of each client
    clock,       \* the value datetime.datetime.now() returned last
    resp,        \* the response of the last request
    ever,        \* history: resolved paths that ever held a file
    added,       \* history: username -> password given to add_user
    config,      \* app.py:89  the configuration loaded at start-up
    worker,      \* app.py:1481  each worker thread: its request, its
                 \* position in the handler and its local values
    served       \* history: the requests the worker threads were given

\* The response is compared handler first: two responses of one handler with
\* one outcome carry an argument and a payload of the same kind.
vars ==
    <<resp.op, resp.status, resp.client, resp.arg, resp.out,
      fs, users, file_stats, session, clock, ever, added, config,
      worker, served>>

(***************************************************************************)
(* Bounds of the model.                                                    *)
(***************************************************************************)
MaxClock == 2    \* number of datetime.now() readings explored

(***************************************************************************)
(* Python values.                                                          *)
(***************************************************************************)
\* request.form.get / request.get_json give None for an absent field
None == "<None>"

\* d[k] = v
Extend(f, k, v) ==
    IF k \in DOMAIN f THEN [f EXCEPT ![k] = v]
    ELSE [x \in (DOMAIN f) \cup {k} |-> IF x = k THEN v ELSE f[x]]
\* del d[k]
Remove(f, k) == [x \in (DOMAIN f) \ {k} |-> f[x]]
EmptyMap == [x \in {} |-> x]

(***************************************************************************)
(* Strings of the file layer.                                              *)
(***************************************************************************)
UpperLetters ==
    <<"A", "B", "C", "D", "E", "F", "G", "H", "I", "J", "K", "L", "M",
      "N", "O", "P", "Q", "R", "S", "T", "U", "V", "W", "X", "Y", "Z">>
LowerLetters ==
    <<"a", "b", "c", "d", "e", "f", "g", "h", "i", "j", "k", "l", "m",
      "n", "o", "p", "q", "r", "s", "t", "u", "v", "w", "x", "y", "z">>

lower_char(c) ==
    IF \E i \in 1..Len(UpperLetters) : UpperLetters[i] = c
    THEN LowerLetters[CHOOSE i \in 1..Len(UpperLetters) : UpperLetters[i] = c]
    ELSE c

\* str.lower()
lower(s) == [i \in 1..Len(s) |-> lower_char(s[i])]

\* '.' in s
contains(s, c) == \E i \in 1..Len(s) : s[i] = c

\* s.rsplit('.', 1)[1] for a string that contains '.'
rsplit_last(s, c) ==
    LET i == CHOOSE k \in 1..Len(s) :
                 s[k] = c /\ \A j \in (k + 1)..Len(s) : s[j] # c
    IN  SubSeq(s, i + 1, Len(s))

startswith(s, p) == Len(s) >= Len(p) /\ SubSeq(s, 1, Len(p)) = p
endswith(s, p) ==
    Len(s) >= Len(p) /\ SubSeq(s, Len(s) - Len(p) + 1, Len(s)) = p

(***************************************************************************)
(* Paths.                                                                  *)
(***************************************************************************)
\* app.py:45-48; the directory the server is started in is /s here
UPLOAD_FOLDER == <<"/", "s">>
CONFIG_NAME ==
    <<"s", "e", "r", "v", "e", "r", "_", "c", "o", "n", "f", "i", "g",
      ".", "j", "s", "o", "n">>
USERS_NAME == <<"u", "s", "e", "r", "s", ".", "j", "s", "o", "n">>
STATS_NAME ==
    <<"f", "i", "l", "e", "_", "s", "t", "a", "t", "s", ".", "j", "s", "o", "n">>

isabs(p) == Len(p) > 0 /\ p[1] = "/"

\* os.path.join(a, b)
os_path_join(a, b) ==
    IF isabs(b) THEN b
    ELSE IF a = <<>> \/ a[Len(a)] = "/" THEN a \o b
    ELSE a \o <<"/">> \o b

RECURSIVE split_acc(_, _, _)
split_acc(p, cur, out) ==
    IF p = <<>> THEN Append(out, cur)
    ELSE IF Head(p) = "/" THEN split_acc(Tail(p), <<>>, Append(out, cur))
    ELSE split_acc(Tail(p), Append(cur, Head(p)), out)

\* p.split('/')
components(p) == split_acc(p, <<>>, <<>>)

DOTDOT == <<".", ".">>

RECURSIVE walk(_, _)
walk(comps, stack) ==
    IF comps = <<>> THEN stack
    ELSE LET c == Head(comps) IN
         IF c = <<>> \/ c = <<".">> THEN walk(Tail(comps), stack)
         ELSE IF c = DOTDOT
              THEN walk(Tail(comps),
                        IF stack = <<>> THEN <<>>
                        ELSE SubSeq(stack, 1, Len(stack) - 1))
         ELSE walk(Tail(comps), Append(stack, c))

\* The file an absolute path names, as the operating system resolves it for
\* os.path.exists, os.remove and open (every directory on the way exists, no
\* symbolic links): the list of its components below the root.
resolve(p) == walk(components(p), <<>>)

ROOT == resolve(UPLOAD_FOLDER)
CONFIG_FILE == resolve(os_path_join(UPLOAD_FOLDER, CONFIG_NAME))
USERS_FILE == resolve(os_path_join(UPLOAD_FOLDER, USERS_NAME))
STATS_FILE == resolve(os_path_join(UPLOAD_FOLDER, STATS_NAME))

\* the program itself, which is started in the directory it lies in
APP_NAME == <<"a", "p", "p", ".", "p", "y">>
APP_FILE == resolve(os_path_join(UPLOAD_FOLDER, APP_NAME))

\* app.py:16-25  the directory logs, made in the managed directory, and the
\* log file in it
LOGS_NAME == <<"l", "o", "g", "s">>
LOG_FILE ==
    resolve(os_path_join(os_path_join(UPLOAD_FOLDER, LOGS_NAME),
                         <<"f", "i", "l", "e", "_", "s", "e", "r", "v", "e",
                           "r", ".", "l", "o", "g">>))

\* the names requests carry
FA == <<"a", ".", "t", "x", "t">>
FB == <<"B", ".", "T", "X", "T">>
FT == <<".", ".", "/", "o", ".", "t", "x", "t">>
FX == <<"c", ".", "e", "x", "e">>
FN == <<"n", "o", "e", "x", "t">>
FD == <<".", "d", ".", "t", "x", "t">>
FL == <<"e", ".", "l", "o", "g">>
FileNames == {FA, FB}
TraversalNames == {FA, FT}
UploadNames == {FA, FB, FX, FN, FD, FL}
\* names of files the listing hides: the accounts record, the statistics
\* record and the program
HiddenNames == {USERS_NAME, STATS_NAME, APP_NAME}
AllNames == FileNames \cup TraversalNames \cup UploadNames \cup HiddenNames

\* os.path.join(UPLOAD_FOLDER, filename) as the operating system resolves
\* it, computed once for every name a request can carry
ResolvedPath ==
    [n \in AllNames \cup {CONFIG_NAME, USERS_NAME, STATS_NAME, APP_NAME,
                           LOGS_NAME} |->
        resolve(os_path_join(UPLOAD_FOLDER, n))]

\* the path the handlers build for a caller-supplied name
file_path(filename) == ResolvedPath[filename]

\* a resolved path lies strictly inside the managed directory
InManaged(path) ==
    Len(path) > Len(ROOT) /\ SubSeq(path, 1, Len(ROOT)) = ROOT

RECURSIVE norm_rel(_, _)
norm_rel(comps, stack) ==
    IF comps = <<>> THEN stack
    ELSE LET c == Head(comps) IN
         IF c = <<>> \/ c = <<".">> THEN norm_rel(Tail(comps), stack)
         ELSE IF c = DOTDOT /\ stack # <<>> /\ stack[Len(stack)] # DOTDOT
              THEN norm_rel(Tail(comps), SubSeq(stack, 1, Len(stack) - 1))
         ELSE norm_rel(Tail(comps), Append(stack, c))

\* send_from_directory's safe_join: None (FALSE here) when the normalised
\* name is absolute or climbs out of the directory
safe_join(filename) ==
    LET n == norm_rel(components(filename), <<>>) IN
    /\ ~isabs(filename)
    /\ ~(n # <<>> /\ n[1] = DOTDOT)

SafeJoin == [n \in AllNames |-> safe_join(n)]
safe_join_ok(filename) == SafeJoin[filename]

(***************************************************************************)
(* File contents.  A regular file holds bytes; the two JSON records of the *)
(* managed directory hold the map that was dumped into them.               *)
(***************************************************************************)
bytes_file(b) == [kind |-> "bytes", data |-> b]
json_file(d) == [kind |-> "json", data |-> d]

\* os.path.exists(path) for a path that names no directory
exists(disk, path) == path \in DOMAIN disk

\* os.remove(path)
os_remove(disk, path) == Remove(disk, path)

\* file.save(path): create or overwrite
file_save(disk, path, b) == Extend(disk, path, bytes_file(b))

\* save_json_file(filepath, data); the write itself is taken to succeed
save_json_file(disk, filepath, data) == Extend(disk, filepath, json_file(data))

\* load_json_file(filepath, default_data)
load_json_file(disk, filepath, default_data) ==
    IF exists(disk, filepath) /\ disk[filepath].kind = "json"
    THEN disk[filepath].data
    ELSE default_data

(***************************************************************************)
(* Configuration (app.py:51-58), the two keys the handlers read: a small   *)
(* size limit and a one-entry allow-list stand for the shipped defaults.   *)
(***************************************************************************)
DEFAULT_CONFIG ==
    [max_file_size |-> 2, allowed_extensions |-> {<<"t", "x", "t">>}]

\* what server_config.json can hold when the server starts: the defaults, or
\* an empty allow-list, which allows every extension
Configs ==
    {DEFAULT_CONFIG, [max_file_size |-> 2, allowed_extensions |-> {}]}

(***************************************************************************)
(* Passwords.  PBKDF2 is kept symbolic: the digest is the term built from  *)
(* the hash name, the salt, the iteration count and the password, so two   *)
(* digests are equal exactly when the passwords are.                       *)
(***************************************************************************)
hash_password(password) == <<"sha256", password, "salt", 100000>>

verify_password(password, password_hash) ==
    hash_password(password) = password_hash

DEFAULT_USERS ==
    [u \in {"admin"} |->
        [password_hash |-> <<"sha256", "1234", "salt", 100000>>,
         role |-> "admin",
         created |-> 0]]

(***************************************************************************)
(* Sessions and guards.                                                    *)
(***************************************************************************)
Clients == {1, 2}

\* session.clear(), and the session of a client that never logged in
NoSession == [logged_in |-> FALSE, username |-> None, role |-> None]

\* login_required that lets every request through
login_required_never(s) == TRUE

\* app.py:97  session.get('logged_in')
login_required(s) == s.logged_in

\* admin_required that looks the session's user up in the accounts map
admin_required_consults_accounts(s) ==
    /\ s.logged_in
    /\ s.username \in DOMAIN users
    /\ users[s.username].role = "admin"

\* admin_required that asks for a login only
admin_required_any_role(s) == s.logged_in

\* app.py:105
admin_required(s) == s.logged_in /\ s.role = "admin"

\* What the last request was and how it ended: the handler, the client, the
\* request's argument, the outcome and the payload of the answer.  The
\* redirect of a guard is the same for every argument.
Response(op, c, arg, status, out) ==
    [op |-> op, client |-> c, arg |-> arg, status |-> status, out |-> out]

\* a request that ends without touching any state
Rejected(op, c, arg, status) ==
    /\ resp' = Response(op, c,
                        IF status \in {"login_redirect", "files_redirect"}
                        THEN <<>> ELSE arg,
                        status, <<>>)
    /\ UNCHANGED <<worker, served, config, fs, users, file_stats, session,
                   clock, ever, added>>

(***************************************************************************)
(* Worker threads.  app.run(threaded=True) gives every request a thread of *)
(* its own; where a handler is modelled as one step, the thread is not     *)
(* seen.                                                                   *)
(***************************************************************************)
Workers == {1, 2}

\* a thread that serves no request
Idle == [pc |-> "idle", op |-> None, name |-> <<>>, stamp |-> 0, tmp |-> 0]

\* nothing served yet
NoneServed ==
    [started |-> 0, downloads |-> 0, views |-> 0, deletes |-> 0,
     deleted |-> 0, failed |-> 0, late |-> FALSE]

(***************************************************************************)
(* Statistics.                                                             *)
(***************************************************************************)
\* update_file_stats that counts every action but download as a view
update_file_stats_else_view(stats, filename, action, now) ==
    LET created ==
            IF filename \notin DOMAIN stats
            THEN Extend(stats, filename,
                        [downloads |-> 0, views |-> 0,
                         uploaded |-> now, last_accessed |-> None])
            ELSE stats
        counted ==
            IF action = "download"
            THEN [created EXCEPT ![filename].downloads = @ + 1]
            ELSE [created EXCEPT ![filename].views = @ + 1]
    IN  [counted EXCEPT ![filename].last_accessed = now]

\* update_file_stats that starts the record afresh at an upload
update_file_stats_upload_resets(stats, filename, action, now) ==
    LET created ==
            IF filename \notin DOMAIN stats \/ action = "upload"
            THEN Extend(stats, filename,
                        [downloads |-> 0, views |-> 0,
                         uploaded |-> now, last_accessed |-> None])
            ELSE stats
        counted ==
            IF action = "download"
            THEN [created EXCEPT ![filename].downloads = @ + 1]
            ELSE IF action = "view"
            THEN [created EXCEPT ![filename].views = @ + 1]
            ELSE created
    IN  [counted EXCEPT ![filename].last_accessed = now]

\* app.py:119-133, the in-memory part: the map after the touch at time now
update_file_stats(stats, filename, action, now) ==
    LET created ==
            IF filename \notin DOMAIN stats
            THEN Extend(stats, filename,
                        [downloads |-> 0, views |-> 0,
                         uploaded |-> now, last_accessed |-> None])
            ELSE stats
        counted ==
            IF action = "download"
            THEN [created EXCEPT ![filename].downloads = @ + 1]
            ELSE IF action = "view"
            THEN [created EXCEPT ![filename].views = @ + 1]
            ELSE created
    IN  [counted EXCEPT ![filename].last_accessed = now]

(***************************************************************************)
(* app.py:1116-1145  get_file_list, the names it shows                     *)
(***************************************************************************)
\* os.listdir(UPLOAD_FOLDER): the names of the files directly in it and of
\* the directories in it
listdir(disk) ==
    {p[Len(ROOT) + 1] : p \in {q \in DOMAIN disk : InManaged(q)}}

\* os.path.isfile(path)
isfile(disk, path) == path \in DOMAIN disk

\* app.py:1123-1128  the filter on a name
shown(filename) ==
    /\ ~startswith(filename, <<".">>)
    /\ filename \notin {CONFIG_NAME, USERS_NAME, STATS_NAME}
    /\ ~endswith(filename, <<".", "p", "y">>)
    /\ ~endswith(filename, <<".", "p", "y", "c">>)
    /\ ~endswith(filename, <<".", "b", "a", "t">>)
    /\ ~endswith(filename, <<".", "l", "o", "g">>)

listed(disk) ==
    {n \in listdir(disk) : isfile(disk, file_path(n)) /\ shown(n)}

\* the characters of the model's names in the order of their code points
CodePoints == <<".", "/">> \o UpperLetters \o <<"_">> \o LowerLetters
ord(c) == CHOOSE i \in 1..Len(CodePoints) : CodePoints[i] = c

\* a < b for two Python strings
RECURSIVE str_lt(_, _)
str_lt(a, b) ==
    IF b = <<>> THEN FALSE
    ELSE IF a = <<>> THEN TRUE
    ELSE IF Head(a) = Head(b) THEN str_lt(Tail(a), Tail(b))
    ELSE ord(Head(a)) < ord(Head(b))

\* sorted_names with the names themselves as the key
RECURSIVE sorted_names_case_sensitive(_)
sorted_names_case_sensitive(names) ==
    IF names = {} THEN <<>>
    ELSE LET first == CHOOSE x \in names :
                          \A y \in names : ~str_lt(y, x)
         IN  <<first>> \o sorted_names_case_sensitive(names \ {first})

\* app.py:1145  sorted(files, key=lambda x: x['name'].lower()); names with
\* the same key keep the order os.listdir gave them, which is any order
RECURSIVE sorted_names(_)
sorted_names(names) ==
    IF names = {} THEN <<>>
    ELSE LET first == CHOOSE x \in names :
                          \A y \in names : ~str_lt(lower(y), lower(x))
         IN  <<first>> \o sorted_names(names \ {first})

\* get_file_list(): the entries, here their names, in the order returned
get_file_list(disk) == sorted_names(listed(disk))

(***************************************************************************)
(* Request inputs.                                                         *)
(***************************************************************************)
Contents == {<<7>>, <<8, 9>>, <<7, 8, 9>>}

\* lists of names of a bulk request: empty, single, repeated, several
Batches ==
    {<<>>, <<FA>>, <<FB>>, <<FA, FA>>, <<FA, FB>>, <<FB, FA>>,
     <<FA, FB, FA>>}
TraversalBatches == {<<>>, <<FA>>, <<FT>>, <<FA, FT>>, <<FT, FA>>}

\* the action field of a /stats body: the two the page sends, and a body
\* without the field
StatActions == {"download", "view", None}

\* request.get_json() of /stats: parsed is FALSE for a missing or malformed
\* body, where get_json gives None or raises
StatBodies ==
    {[parsed |-> FALSE, action |-> None]}
        \cup {[parsed |-> TRUE, action |-> a] : a \in StatActions}

Usernames == {"admin", "bob"}
Passwords == {"1234", "pw"}
Roles == {"user", "admin", "root"}

\* the file outside the managed directory that FT names
OUTSIDE == file_path(FT)

(***************************************************************************)
(* app.py:1191-1203  files, the listing page                               *)
(***************************************************************************)
files(c) ==
    IF ~login_required(session[c])
    THEN Rejected("files", c, <<>>, "login_redirect")
    ELSE /\ resp' = Response("files", c, <<>>, "ok", get_file_list(fs))
         /\ UNCHANGED <<worker, served, config, fs, users, file_stats, session,
                        clock, ever, added>>

(***************************************************************************)
(* app.py:1266-1270  files_raw                                             *)
(***************************************************************************)
\* send_from_directory(UPLOAD_FOLDER, filename): the file served, or the
\* NotFound it raises when safe_join refuses the name or no file is there
send_from_directory(disk, filename) ==
    IF safe_join_ok(filename) /\ exists(disk, file_path(filename))
    THEN [found |-> TRUE, data |-> disk[file_path(filename)].data]
    ELSE [found |-> FALSE, data |-> <<>>]

files_raw(c, filename) ==
    IF ~login_required(session[c])
    THEN Rejected("files_raw", c, filename, "login_redirect")
    ELSE /\ resp' = LET sent == send_from_directory(fs, filename) IN
                    IF sent.found
                    THEN Response("files_raw", c, filename, "ok", sent.data)
                    ELSE Response("files_raw", c, filename, "not_found", <<>>)
         /\ UNCHANGED <<worker, served, config, fs, users, file_stats, session,
                        clock, ever, added>>

(***************************************************************************)
(* app.py:1272-1283  download                                              *)
(***************************************************************************)
download(c, filename) ==
    IF ~login_required(session[c])
    THEN Rejected("download", c, filename, "login_redirect")
    ELSE LET now == clock + 1
             stats == update_file_stats(file_stats, filename, "download", now)
             disk == save_json_file(fs, STATS_FILE, stats)
         IN  /\ clock < MaxClock
             /\ clock' = now
             /\ file_stats' = stats
             /\ fs' = disk
             /\ ever' = ever \cup DOMAIN disk
             /\ resp' = LET sent == send_from_directory(disk, filename) IN
                        IF sent.found
                        THEN Response("download", c, filename, "ok", sent.data)
                        ELSE Response("download", c, filename, "error", <<>>)
             /\ UNCHANGED <<worker, served, config, users, session, added>>

(***************************************************************************)
(* app.py:1412-1423  update_stats                                          *)
(***************************************************************************)
update_stats(c, filename, body) ==
    IF ~login_required(session[c])
    THEN Rejected("update_stats", c, filename, "login_redirect")
    ELSE IF ~body.parsed
    THEN Rejected("update_stats", c, filename, "error")
    ELSE LET now == clock + 1
             stats == update_file_stats(file_stats, filename, body.action, now)
         IN  /\ clock < MaxClock
             /\ clock' = now
             /\ file_stats' = stats
             /\ fs' = save_json_file(fs, STATS_FILE, stats)
             /\ ever' = ever \cup DOMAIN fs'
             /\ resp' = Response("update_stats", c, filename, "ok", body.action)
             /\ UNCHANGED <<worker, served, config, users, session, added>>

(***************************************************************************)
(* app.py:1330-1350  delete                                                *)
(***************************************************************************)
\* app.py:1339-1341: the record goes, and the map is saved, if there is one
delete_stats(st, filename) ==
    IF filename \in DOMAIN st.stats
    THEN [st EXCEPT !.stats = Remove(st.stats, filename),
                    !.disk = save_json_file(st.disk, STATS_FILE,
                                            Remove(st.stats, filename))]
    ELSE st

\* delete_file that knows only the names the listing shows
delete_file_listed_only(st, filename, rm_ok) ==
    LET path == file_path(filename) IN
    IF exists(st.disk, path) /\ shown(filename)
    THEN IF rm_ok
         THEN [delete_stats([st EXCEPT !.disk = os_remove(st.disk, path)],
                            filename)
                  EXCEPT !.status = "deleted"]
         ELSE [st EXCEPT !.status = "error"]
    ELSE [st EXCEPT !.status = "not_found"]

\* delete_file with the record dropped before the file is removed
delete_file_stats_first(st, filename, rm_ok) ==
    LET path == file_path(filename)
        dropped == delete_stats(st, filename)
    IN  IF exists(st.disk, path)
        THEN IF rm_ok
             THEN [dropped EXCEPT !.disk = os_remove(dropped.disk, path),
                                  !.status = "deleted"]
             ELSE [dropped EXCEPT !.status = "error"]
        ELSE [st EXCEPT !.status = "not_found"]

\* delete_file with the record dropped whether or not the file is there
delete_file_any_stats(st, filename, rm_ok) ==
    LET path == file_path(filename) IN
    IF exists(st.disk, path)
    THEN IF rm_ok
         THEN [delete_stats([st EXCEPT !.disk = os_remove(st.disk, path)],
                            filename)
                  EXCEPT !.status = "deleted"]
         ELSE [st EXCEPT !.status = "error"]
    ELSE [delete_stats(st, filename) EXCEPT !.status = "not_found"]

\* app.py:1335-1345 on [disk, stats]; rm_ok: os.remove does not raise
delete_file(st, filename, rm_ok) ==
    LET path == file_path(filename) IN
    IF exists(st.disk, path)
    THEN IF rm_ok
         THEN [delete_stats([st EXCEPT !.disk = os_remove(st.disk, path)],
                            filename)
                  EXCEPT !.status = "deleted"]
         ELSE [st EXCEPT !.status = "error"]
    ELSE [st EXCEPT !.status = "not_found"]

delete(c, filename, rm_ok) ==
    IF ~login_required(session[c])
    THEN Rejected("delete", c, filename, "login_redirect")
    ELSE LET st == delete_file([disk |-> fs, stats |-> file_stats,
                                status |-> None], filename, rm_ok)
         IN  /\ fs' = st.disk
             /\ file_stats' = st.stats
             /\ ever' = ever \cup DOMAIN st.disk
             /\ resp' = Response("delete", c, filename, st.status, <<>>)
             /\ UNCHANGED <<worker, served, config, users, session, clock,
                            added>>

(***************************************************************************)
(* app.py:1352-1375  bulk_delete                                           *)
(***************************************************************************)
\* request.get_json() of /bulk-delete, with data.get('files', [])
BulkBodies(batches) ==
    {[parsed |-> FALSE, files |-> <<>>]}
        \cup {[parsed |-> TRUE, files |-> b] : b \in batches}

\* bulk_delete_loop that counts a name whether or not its file is there
RECURSIVE bulk_delete_loop_count_all(_, _, _, _)
bulk_delete_loop_count_all(st, filenames, i, fail_at) ==
    IF i > Len(filenames) THEN st
    ELSE LET filename == filenames[i]
             path == file_path(filename)
         IN  IF ~exists(st.disk, path)
             THEN bulk_delete_loop_count_all(
                      [st EXCEPT !.deleted_count = @ + 1],
                      filenames, i + 1, fail_at)
             ELSE IF i = fail_at
             THEN [st EXCEPT !.raised = TRUE, !.failed = filename]
             ELSE bulk_delete_loop_count_all(
                      [st EXCEPT !.disk = os_remove(st.disk, path),
                                 !.stats = IF filename \in DOMAIN st.stats
                                           THEN Remove(st.stats, filename)
                                           ELSE st.stats,
                                 !.deleted_count = @ + 1],
                      filenames, i + 1, fail_at)

\* bulk_delete_loop that drops the record of a name before it removes the
\* file, so that the record of the name whose removal raises is gone
RECURSIVE bulk_delete_loop_record_first(_, _, _, _)
bulk_delete_loop_record_first(st, filenames, i, fail_at) ==
    IF i > Len(filenames) THEN st
    ELSE LET filename == filenames[i]
             path == file_path(filename)
             dropped == IF filename \in DOMAIN st.stats
                        THEN Remove(st.stats, filename)
                        ELSE st.stats
         IN  IF ~exists(st.disk, path)
             THEN bulk_delete_loop_record_first(st, filenames, i + 1, fail_at)
             ELSE IF i = fail_at
             THEN [st EXCEPT !.stats = dropped, !.raised = TRUE,
                             !.failed = filename]
             ELSE bulk_delete_loop_record_first(
                      [st EXCEPT !.disk = os_remove(st.disk, path),
                                 !.stats = dropped,
                                 !.deleted_count = @ + 1],
                      filenames, i + 1, fail_at)

\* app.py:1361-1368, from the i-th name on; the removal of the fail_at-th
\* name raises when it is reached and its file exists (0: none raises)
RECURSIVE bulk_delete_loop(_, _, _, _)
bulk_delete_loop(st, filenames, i, fail_at) ==
    IF i > Len(filenames) THEN st
    ELSE LET filename == filenames[i]
             path == file_path(filename)
         IN  IF ~exists(st.disk, path)
             THEN bulk_delete_loop(st, filenames, i + 1, fail_at)
             ELSE IF i = fail_at
             THEN [st EXCEPT !.raised = TRUE, !.failed = filename]
             ELSE bulk_delete_loop(
                      [st EXCEPT !.disk = os_remove(st.disk, path),
                                 !.stats = IF filename \in DOMAIN st.stats
                                           THEN Remove(st.stats, filename)
                                           ELSE st.stats,
                                 !.deleted_count = @ + 1],
                      filenames, i + 1, fail_at)

bulk_delete(c, data, fail_at) ==
    IF ~login_required(session[c])
    THEN Rejected("bulk_delete", c, data.files, "login_redirect")
    ELSE IF ~data.parsed
    THEN Rejected("bulk_delete", c, data.files, "bad_body")
    ELSE LET st == bulk_delete_loop(
                       [disk |-> fs, stats |-> file_stats,
                        deleted_count |-> 0, raised |-> FALSE,
                        failed |-> <<>>],
                       data.files, 1, fail_at)
         IN  /\ file_stats' = st.stats
             /\ fs' = IF st.raised THEN st.disk
                      ELSE save_json_file(st.disk, STATS_FILE, st.stats)
             /\ ever' = ever \cup DOMAIN fs'
             /\ resp' = IF st.raised
                        THEN \* the message is str(e), which names the file
                             Response("bulk_delete", c, data.files, "error",
                                      st.failed)
                        ELSE Response("bulk_delete", c, data.files, "ok",
                                      st.deleted_count)
             /\ UNCHANGED <<worker, served, config, users, session, clock,
                            added>>

(***************************************************************************)
(* app.py:1377-1410  bulk_download                                         *)
(***************************************************************************)
\* bulk_download_loop that touches a requested name that has no file too
RECURSIVE bulk_download_loop_touch_all(_, _, _)
bulk_download_loop_touch_all(st, filenames, i) ==
    IF i > Len(filenames) THEN st
    ELSE LET filename == filenames[i]
             path == file_path(filename)
             now == st.clock + 1
             stats == update_file_stats(st.stats, filename, "download", now)
         IN  bulk_download_loop_touch_all(
                 [disk |-> save_json_file(st.disk, STATS_FILE, stats),
                  stats |-> stats,
                  clock |-> now,
                  zip |-> IF exists(st.disk, path)
                          THEN Append(st.zip, <<filename, st.disk[path].data>>)
                          ELSE st.zip],
                 filenames, i + 1)

\* app.py:1390-1394: zip holds the (name, content) entries written so far
RECURSIVE bulk_download_loop(_, _, _)
bulk_download_loop(st, filenames, i) ==
    IF i > Len(filenames) THEN st
    ELSE LET filename == filenames[i]
             path == file_path(filename)
         IN  IF ~exists(st.disk, path)
             THEN bulk_download_loop(st, filenames, i + 1)
             ELSE LET now == st.clock + 1
                      stats == update_file_stats(st.stats, filename,
                                                 "download", now)
                  IN  bulk_download_loop(
                          [disk |-> save_json_file(st.disk, STATS_FILE, stats),
                           stats |-> stats,
                           clock |-> now,
                           zip |-> Append(st.zip, <<filename,
                                                    st.disk[path].data>>)],
                          filenames, i + 1)

bulk_download(c, filenames) ==
    IF ~login_required(session[c])
    THEN Rejected("bulk_download", c, filenames, "login_redirect")
    ELSE LET st == bulk_download_loop(
                       [disk |-> fs, stats |-> file_stats, clock |-> clock,
                        zip |-> <<>>], filenames, 1)
         IN  /\ st.clock <= MaxClock
             /\ clock' = st.clock
             /\ file_stats' = st.stats
             /\ fs' = st.disk
             /\ ever' = ever \cup DOMAIN st.disk
             /\ resp' = Response("bulk_download", c, filenames, "ok", st.zip)
             /\ UNCHANGED <<worker, served, config, users, session, added>>

(***************************************************************************)
(* app.py:1285-1328  upload                                                *)
(***************************************************************************)
\* request.files.getlist('files'): a browser that submits the form with no
\* file selected sends one part with an empty filename
UploadFiles(names) ==
    {[filename |-> n, data |-> d] : n \in names \cup {FX}, d \in Contents}
        \cup {[filename |-> <<>>, data |-> <<>>]}
UploadLists(names) ==
    {<<>>} \cup {<<f>> : f \in UploadFiles(names)}
        \cup {<<[filename |-> FA, data |-> d], [filename |-> n, data |-> <<7>>]>> :
                d \in Contents, n \in names \ {FA}}

\* app.py:1309  the extension the allow-list is asked about
extension(filename) ==
    IF contains(filename, ".") THEN lower(rsplit_last(filename, "."))
    ELSE <<>>

\* upload_verdict that also turns away a file of exactly the maximal size
upload_verdict_max_excluded(file) ==
    IF Len(file.data) >= config.max_file_size THEN "too_large"
    ELSE IF config.allowed_extensions # {}
            /\ extension(file.filename) \notin config.allowed_extensions
    THEN "disallowed_extension"
    ELSE "accepted"

\* app.py:1301-1312  whether the loop skips the file, and why
upload_verdict(file) ==
    IF Len(file.data) > config.max_file_size THEN "too_large"
    ELSE IF config.allowed_extensions # {}
            /\ extension(file.filename) \notin config.allowed_extensions
    THEN "disallowed_extension"
    ELSE "accepted"

\* app.py:1298-1319
RECURSIVE upload_loop(_, _, _)
upload_loop(st, uploaded_files, i) ==
    IF i > Len(uploaded_files) THEN st
    ELSE LET file == uploaded_files[i] IN
         IF file.filename = <<>> \/ upload_verdict(file) # "accepted"
         THEN upload_loop(st, uploaded_files, i + 1)
         ELSE LET now == st.clock + 1
                  saved == file_save(st.disk, file_path(file.filename),
                                     file.data)
                  stats == update_file_stats(st.stats, file.filename,
                                             "upload", now)
              IN  upload_loop(
                      [disk |-> save_json_file(saved, STATS_FILE, stats),
                       stats |-> stats,
                       clock |-> now,
                       successful_uploads |-> st.successful_uploads + 1],
                      uploaded_files, i + 1)

upload(c, uploaded_files) ==
    IF ~login_required(session[c])
    THEN Rejected("upload", c, uploaded_files, "login_redirect")
    ELSE IF uploaded_files = <<>> \/ uploaded_files[1].filename = <<>>
    THEN Rejected("upload", c, uploaded_files, "no_files")
    ELSE LET st == upload_loop(
                       [disk |-> fs, stats |-> file_stats, clock |-> clock,
                        successful_uploads |-> 0], uploaded_files, 1)
         IN  /\ st.clock <= MaxClock
             /\ clock' = st.clock
             /\ file_stats' = st.stats
             /\ fs' = st.disk
             /\ ever' = ever \cup DOMAIN st.disk
             /\ resp' = Response("upload", c, uploaded_files, "ok",
                                 st.successful_uploads)
             /\ UNCHANGED <<worker, served, config, users, session, added>>

(***************************************************************************)
(* app.py:1171-1189  login (POST)                                          *)
(***************************************************************************)
\* credentials_ok that looks at the username alone
credentials_ok_any_password(accounts, username, password) ==
    username \in DOMAIN accounts

\* app.py:1178  the test of the credentials, for a password that was sent
credentials_ok(accounts, username, password) ==
    /\ username \in DOMAIN accounts
    /\ verify_password(password, accounts[username].password_hash)

login(c, username, password) ==
    IF username \in DOMAIN users /\ password = None
    THEN \* hash_password(None): None has no encode, the request ends in 500
         Rejected("login", c, <<username, password>>, "server_error")
    ELSE IF credentials_ok(users, username, password)
    THEN /\ session' = [session EXCEPT ![c] =
                            [logged_in |-> TRUE, username |-> username,
                             role |-> users[username].role]]
         /\ resp' = Response("login", c, <<username, password>>, "ok", <<>>)
         /\ UNCHANGED <<worker, served, config, fs, users, file_stats, clock,
                        ever, added>>
    ELSE Rejected("login", c, <<username, password>>, "invalid")

(***************************************************************************)
(* app.py:1425-1433  logout                                                *)
(***************************************************************************)
\* logout that drops the login flag and keeps the rest of the session
logout_keeps_identity(c) ==
    IF ~login_required(session[c])
    THEN Rejected("logout", c, <<>>, "login_redirect")
    ELSE /\ session' = [session EXCEPT ![c].logged_in = FALSE]
         /\ resp' = Response("logout", c, <<>>, "ok", <<>>)
         /\ UNCHANGED <<worker, served, config, fs, users, file_stats, clock,
                        ever, added>>

logout(c) ==
    IF ~login_required(session[c])
    THEN Rejected("logout", c, <<>>, "login_redirect")
    ELSE /\ session' = [session EXCEPT ![c] = NoSession]
         /\ resp' = Response("logout", c, <<>>, "ok", <<>>)
         /\ UNCHANGED <<worker, served, config, fs, users, file_stats, clock,
                        ever, added>>

(***************************************************************************)
(* app.py:1205-1226  admin, the admin panel                                *)
(***************************************************************************)
\* app.py:1211  sum(stats.get('downloads', 0) for stats in file_stats.values())
RECURSIVE total_downloads(_, _)
total_downloads(stats, names) ==
    IF names = {} THEN 0
    ELSE LET n == CHOOSE x \in names : TRUE
         IN  stats[n].downloads + total_downloads(stats, names \ {n})

\* the values the page is rendered from (the disk usage is left out)
admin(c) ==
    IF ~admin_required(session[c])
    THEN Rejected("admin", c, <<>>, "files_redirect")
    ELSE /\ resp' = Response("admin", c, <<>>, "ok",
                             [users |-> users,
                              file_stats |-> file_stats,
                              total_files |-> Len(get_file_list(fs)),
                              total_downloads |->
                                  total_downloads(file_stats,
                                                  DOMAIN file_stats),
                              total_users |-> Cardinality(DOMAIN users)])
         /\ UNCHANGED <<worker, served, config, fs, users, file_stats, session,
                        clock, ever, added>>

(***************************************************************************)
(* app.py:1228-1264  admin_actions                                         *)
(***************************************************************************)
\* Python truth of a form field: None and '' are false
truthy(v) == v # None /\ v # ""

\* the fields of the form that the handler reads; an absent one is None
AdminForms ==
    {[action |-> "add_user", username |-> u, password |-> p, role |-> r] :
        u \in Usernames \cup {"", None}, p \in Passwords \cup {"", None},
        r \in Roles \cup {None}}
    \cup {[action |-> "delete_user", username |-> u, password |-> None,
           role |-> None] : u \in Usernames \cup {"", None}}
    \cup {[action |-> None, username |-> None, password |-> None,
           role |-> None]}

\* app.py:1238  request.form.get('new_role', 'user')
new_role(form) == IF form.role = None THEN "user" ELSE form.role

\* add_user that hashes the wrong field of the form
add_user_hashes_username(accounts, form, now) ==
    IF truthy(form.username) /\ truthy(form.password)
    THEN IF form.username \notin DOMAIN accounts
         THEN [users |-> Extend(accounts, form.username,
                                [password_hash |-> hash_password(form.username),
                                 role |-> new_role(form),
                                 created |-> now]),
               status |-> "created"]
         ELSE [users |-> accounts, status |-> "exists"]
    ELSE [users |-> accounts, status |-> "required"]

\* add_user that writes the account before it looks for the username
add_user_overwrites(accounts, form, now) ==
    IF truthy(form.username) /\ truthy(form.password)
    THEN [users |-> Extend(accounts, form.username,
                           [password_hash |-> hash_password(form.password),
                            role |-> new_role(form),
                            created |-> now]),
          status |-> IF form.username \notin DOMAIN accounts
                     THEN "created" ELSE "exists"]
    ELSE [users |-> accounts, status |-> "required"]

\* app.py:1240-1253 on the accounts map: the map afterwards and the message
add_user(accounts, form, now) ==
    IF truthy(form.username) /\ truthy(form.password)
    THEN IF form.username \notin DOMAIN accounts
         THEN [users |-> Extend(accounts, form.username,
                                [password_hash |-> hash_password(form.password),
                                 role |-> new_role(form),
                                 created |-> now]),
               status |-> "created"]
         ELSE [users |-> accounts, status |-> "exists"]
    ELSE [users |-> accounts, status |-> "required"]

\* delete_user without the test for the seeded administrator
delete_user_unprotected(accounts, form) ==
    IF truthy(form.username) /\ form.username \in DOMAIN accounts
    THEN [users |-> Remove(accounts, form.username), status |-> "deleted"]
    ELSE [users |-> accounts, status |-> "cannot_delete"]

\* app.py:1255-1263
delete_user(accounts, form) ==
    IF truthy(form.username) /\ form.username # "admin"
       /\ form.username \in DOMAIN accounts
    THEN [users |-> Remove(accounts, form.username), status |-> "deleted"]
    ELSE [users |-> accounts, status |-> "cannot_delete"]

admin_actions(c, form) ==
    IF ~admin_required(session[c])
    THEN Rejected("admin_actions", c, form, "files_redirect")
    ELSE IF form.action = "add_user"
    THEN LET now == clock + 1
             r == add_user(users, form, now)
         IN  /\ r.status = "created" => clock < MaxClock
             /\ users' = r.users
             /\ clock' = IF r.status = "created" THEN now ELSE clock
             /\ fs' = IF r.status = "created"
                      THEN save_json_file(fs, USERS_FILE, r.users) ELSE fs
             /\ added' = IF r.status = "created"
                         THEN Extend(added, form.username, form.password)
                         ELSE added
             /\ ever' = ever \cup DOMAIN fs'
             /\ resp' = Response("admin_actions", c, form, r.status, <<>>)
             /\ UNCHANGED <<worker, served, config, file_stats, session>>
    ELSE IF form.action = "delete_user"
    THEN LET r == delete_user(users, form)
         IN  /\ users' = r.users
             /\ fs' = IF r.status = "deleted"
                      THEN save_json_file(fs, USERS_FILE, r.users) ELSE fs
             /\ added' = IF r.status = "deleted"
                         THEN Remove(added, form.username) ELSE added
             /\ ever' = ever \cup DOMAIN fs'
             /\ resp' = Response("admin_actions", c, form, r.status, <<>>)
             /\ UNCHANGED <<worker, served, config, file_stats, session,
                            clock>>
    ELSE Rejected("admin_actions", c, form, "no_action")

(***************************************************************************)
(* The state after start-up in an empty managed directory: the defaults of *)
(* the configuration and the accounts are saved (app.py:1494-1501), no     *)
(* statistics record exists yet, nobody is logged in.  The program file    *)
(* and the directory of the log lie in the managed directory (what is      *)
(* written to the log is left out), one file lies outside it.              *)
(***************************************************************************)
Boot ==
    [p \in {CONFIG_FILE, USERS_FILE, APP_FILE, LOG_FILE, OUTSIDE} |->
        IF p = CONFIG_FILE THEN json_file(DEFAULT_CONFIG)
        ELSE IF p = USERS_FILE THEN json_file(DEFAULT_USERS)
        ELSE bytes_file(<<7>>)]

\* app.py:89-91 on the files found at start-up
Loaded(disk) ==
    /\ fs = disk
    /\ config = load_json_file(disk, CONFIG_FILE, DEFAULT_CONFIG)
    /\ users = load_json_file(disk, USERS_FILE, DEFAULT_USERS)
    /\ file_stats = load_json_file(disk, STATS_FILE, EmptyMap)
    /\ session = [c \in Clients |-> NoSession]
    /\ clock = 0
    /\ resp = Response("boot", 0, <<>>, "ok", <<>>)
    /\ ever = DOMAIN disk
    /\ added = EmptyMap
    /\ worker = [w \in Workers |-> Idle]
    /\ served = NoneServed

Init == Loaded(Boot)

(***************************************************************************)
(* The file repository, used by one client.                                *)
(***************************************************************************)
FileClient == 1

FileRequests(c, names, batches) ==
    \/ \E p \in Passwords : login(c, "admin", p)
    \/ logout(c)
    \/ files(c)
    \/ \E n \in names : files_raw(c, n)
    \/ \E n \in names : download(c, n)
    \/ \E n \in names, b \in StatBodies : update_stats(c, n, b)
    \/ \E l \in UploadLists(names) : upload(c, l)
    \/ \E n \in names, ok \in BOOLEAN : delete(c, n, ok)
    \/ \E d \in BulkBodies(batches) : \E k \in 0..Len(d.files) :
          bulk_delete(c, d, k)
    \/ \E b \in batches : bulk_download(c, b)

Next == FileRequests(FileClient, FileNames, Batches)

Spec == Init /\ [][Next]_vars

(***************************************************************************)
(* The same handlers, asked for a name that leaves the managed directory.  *)
(***************************************************************************)
NextTraversal == FileRequests(FileClient, TraversalNames, TraversalBatches)

SpecTraversal == Init /\ [][NextTraversal]_vars

(***************************************************************************)
(* Uploads and the listing, with the configuration file as the operator    *)
(* left it: the defaults, or an empty allow-list.                          *)
(***************************************************************************)
InitUpload ==
    \E cfg \in Configs :
        Loaded([Boot EXCEPT ![CONFIG_FILE] = json_file(cfg)])

NextUpload ==
    \/ \E p \in Passwords : login(FileClient, "admin", p)
    \/ files(FileClient)
    \/ \E l \in UploadLists(UploadNames) : upload(FileClient, l)

SpecUpload == InitUpload /\ [][NextUpload]_vars

(***************************************************************************)
(* Properties of the file repository.                                      *)
(***************************************************************************)
Range(q) == {q[i] : i \in 1..Len(q)}

\* a step of handler op that passed the login guard
Handled(op) == resp'.op = op /\ resp'.status # "login_redirect"

\* C1: every key of the statistics map names a file of the managed
\* directory that exists or once existed.
StatKeysHadFile ==
    \A k \in DOMAIN file_stats :
        InManaged(file_path(k)) /\ file_path(k) \in ever

\* C2: delete(name) is both-or-neither.  When it reports success the file is
\* gone and the map has no record for name; when the removal fails the file
\* and the whole map, in memory and on disk, are as before; and the map
\* changes in no delete that did not remove the file.
DeletePost ==
    LET name == resp'.arg
        path == file_path(name)
    IN  /\ resp'.status = "deleted" =>
               /\ exists(fs, path)
               /\ ~exists(fs', path)
               /\ name \notin DOMAIN file_stats'
        /\ resp'.status = "error" =>
               /\ exists(fs', path)
               /\ fs' = fs
               /\ file_stats' = file_stats
        /\ file_stats' # file_stats =>
               /\ resp'.status = "deleted"
               /\ file_stats' = Remove(file_stats, name)

DeleteBothOrNeither == [][Handled("delete") => DeletePost]_vars

\* C2 witness: a removal failed and the record of the file is still there
DeleteFailedStatKept ==
    /\ resp.op = "delete"
    /\ resp.status = "error"
    /\ resp.arg \in DOMAIN file_stats
    /\ exists(fs, file_path(resp.arg))

\* C3: delete(name) for a name that has no file reports NotFound and leaves
\* the files and the statistics map, in memory and on disk, unchanged, so
\* that repeating it meets the same state.
DeleteMissingPost ==
    LET name == resp'.arg
        path == file_path(name)
    IN  ~exists(fs, path) =>
            /\ resp'.status = "not_found"
            /\ fs' = fs
            /\ file_stats' = file_stats
            /\ ~exists(fs', path)

DeleteMissingIsNotFound == [][Handled("delete") => DeleteMissingPost]_vars

\* C3 witness: NotFound for a name whose statistics record stays in the map
DeleteMissingStatKept ==
    /\ resp.op = "delete"
    /\ resp.status = "not_found"
    /\ resp.arg \in DOMAIN file_stats
    /\ load_json_file(fs, STATS_FILE, EmptyMap) = file_stats

\* C4: a bulkDelete fails only when the removal of an existing file raises,
\* never because a name has no file; when it succeeds, deletedCount is the
\* number of requested names that had a file; afterwards none of them has a
\* file, is listed or has a statistics record; every other record stays,
\* and every file the request does not name, but for the rewritten
\* statistics file, is as before.
BulkDeletePost(filenames) ==
    LET had == {n \in Range(filenames) : exists(fs, file_path(n))}
        named == {file_path(n) : n \in Range(filenames)}
    IN  /\ resp'.out = Cardinality(had)
        /\ \A n \in had :
               /\ ~exists(fs', file_path(n))
               /\ n \notin listed(fs')
               /\ n \notin DOMAIN file_stats'
        /\ \A k \in DOMAIN file_stats :
               k \notin had => k \in DOMAIN file_stats'
                               /\ file_stats'[k] = file_stats[k]
        /\ \A q \in (DOMAIN fs) \ (named \cup {STATS_FILE}) :
               exists(fs', q) /\ fs'[q] = fs[q]
        /\ DOMAIN fs' \subseteq (DOMAIN fs) \cup {STATS_FILE}

BulkDeleteBestEffort ==
    [][(Handled("bulk_delete") /\ resp'.status # "bad_body") =>
          IF resp'.status = "ok"
          THEN BulkDeletePost(resp'.arg)
          ELSE /\ resp'.status = "error"
               /\ resp'.out \in Range(resp'.arg)
               /\ exists(fs, file_path(resp'.out))]_vars

\* C4 witness: three names asked, the third without a file, two deleted
BulkDeleteTwoOfThree ==
    /\ resp.op = "bulk_delete"
    /\ resp.status = "ok"
    /\ Len(resp.arg) = 3
    /\ resp.out = 2
    /\ listed(fs) = {}

\* C5: after every upload, delete, bulkDelete and archive the files outside
\* the managed directory are the ones of the start, with their content:
\* none was written, removed or put in an archive.
OutsidePaths(disk) == {q \in DOMAIN disk : ~InManaged(q)}

TraversalRejected ==
    (/\ resp.op \in {"upload", "delete", "bulk_delete", "bulk_download"}
     /\ resp.status # "login_redirect") =>
        /\ OutsidePaths(fs) = OutsidePaths(Boot)
        /\ \A q \in OutsidePaths(Boot) : fs[q] = Boot[q]
        /\ resp.op = "bulk_download" =>
               \A i \in 1..Len(resp.out) :
                   InManaged(file_path(resp.out[i][1]))

\* C6: downloadFile(name) for a name that resolves outside the managed
\* directory fails, serves nothing and changes no state.
DownloadOutsidePost ==
    ~InManaged(file_path(resp'.arg)) =>
        /\ resp'.status = "error"
        /\ resp'.out = <<>>
        /\ file_stats' = file_stats
        /\ fs' = fs

DownloadOutsideNoEffect == [][Handled("download") => DownloadOutsidePost]_vars

(***************************************************************************)
(* The accounts, managed and used by two clients.                          *)
(***************************************************************************)
NextAccounts ==
    \/ \E c \in Clients, u \in Usernames \cup {None},
          p \in Passwords \cup {None} : login(c, u, p)
    \/ \E c \in Clients : logout(c)
    \/ \E c \in Clients : admin(c)
    \/ \E c \in Clients, f \in AdminForms : admin_actions(c, f)

SpecAccounts == Init /\ [][NextAccounts]_vars

(***************************************************************************)
(* Properties of the accounts.                                             *)
(***************************************************************************)
\* a step of admin_actions, past the guard, for the given form action
AdminStep(action) ==
    /\ resp'.op = "admin_actions"
    /\ resp'.status # "files_redirect"
    /\ resp'.arg.action = action

\* C7: a login whose password field was sent establishes the session
\* (logged_in, the username, the stored role of the account) exactly when the
\* username is a key of the accounts map and the hash of the password is the
\* stored hash; otherwise it answers invalid credentials and every session
\* is as before.
LoginPost ==
    LET c == resp'.client
        username == resp'.arg[1]
        password == resp'.arg[2]
        match == /\ username \in DOMAIN users
                 /\ hash_password(password) = users[username].password_hash
    IN  password # None =>
            /\ resp'.status = "ok" <=> match
            /\ match =>
                   /\ session'[c] = [logged_in |-> TRUE,
                                     username |-> username,
                                     role |-> users[username].role]
                   /\ \A d \in Clients \ {c} : session'[d] = session[d]
            /\ ~match =>
                   /\ resp'.status = "invalid"
                   /\ session' = session

LoginIffCredentials == [][resp'.op = "login" => LoginPost]_vars

\* C7 witness: a created account has logged in and carries its stored role
LoggedInAsCreated ==
    /\ resp.op = "login"
    /\ resp.status = "ok"
    /\ resp.arg[1] # "admin"
    /\ session[resp.client].username = resp.arg[1]
    /\ session[resp.client].role = users[resp.arg[1]].role

\* C8: as long as an account added with addAccount(username, password) is
\* not deleted, the credentials test of login accepts that password for it
\* and refuses every other one.
AddedAccountAuthenticates ==
    \A u \in DOMAIN added :
        /\ u \in DOMAIN users
        /\ \A p \in Passwords \cup {"", u} :
               credentials_ok(users, u, p) <=> p = added[u]

\* C8 witness: a login to an added account with another password was refused
AddedAccountWrongPassword ==
    /\ resp.op = "login"
    /\ resp.status = "invalid"
    /\ resp.arg[1] \in DOMAIN added
    /\ resp.arg[2] \in Passwords \ {added[resp.arg[1]]}

\* C9: deleteAccount(username) succeeds exactly when username is not "admin"
\* and is a key of the accounts map, and then removes that account alone;
\* otherwise the accounts map is as before.  The account "admin" exists with
\* role admin in every reachable state.
DeleteUserPost ==
    LET username == resp'.arg.username
        can == username # "admin" /\ username \in DOMAIN users
    IN  /\ resp'.status = "deleted" <=> can
        /\ can => users' = Remove(users, username)
        /\ ~can => resp'.status = "cannot_delete" /\ users' = users

AdminAccountKept ==
    "admin" \in DOMAIN users /\ users["admin"].role = "admin"

DeleteAccountProtectsAdmin ==
    /\ []AdminAccountKept
    /\ [][AdminStep("delete_user") => DeleteUserPost]_vars

\* C9 witness: the deletion of "admin" was asked for and refused, while
\* another account exists
DeleteAdminRefused ==
    /\ resp.op = "admin_actions"
    /\ resp.status = "cannot_delete"
    /\ resp.arg.username = "admin"
    /\ DOMAIN users # {"admin"}

\* C10: addAccount for a username that exists fails, with the duplicate
\* error when a password was given, and leaves the accounts map, in memory
\* and on disk, unchanged.
AddExistingPost ==
    LET username == resp'.arg.username
        password == resp'.arg.password
    IN  username \in DOMAIN users =>
            /\ resp'.status \in {"exists", "required"}
            /\ truthy(password) => resp'.status = "exists"
            /\ users' = users
            /\ fs' = fs

DuplicateAccountRefused == [][AdminStep("add_user") => AddExistingPost]_vars

\* C10 witness: adding "admin" again, with another password and role, was
\* refused as a duplicate
AddAdminAgainRefused ==
    /\ resp.op = "admin_actions"
    /\ resp.status = "exists"
    /\ resp.arg.username = "admin"
    /\ resp.arg.password # "1234"
    /\ resp.arg.role = "user"
    /\ users["admin"] = DEFAULT_USERS["admin"]

\* C11: every step that changes the accounts map, and every admin view that
\* is returned, is taken by a session that is logged in with role admin; a
\* request to the admin routes from any other session is turned away and
\* leaves the accounts, in memory and on disk, as they were.
AdminOnlyPost ==
    LET s == session[resp'.client] IN
    /\ (users' # users \/ (resp'.op = "admin" /\ resp'.status = "ok")) =>
           /\ resp'.op \in {"admin", "admin_actions"}
           /\ s.logged_in /\ s.role = "admin"
    /\ (resp'.op \in {"admin", "admin_actions"}
            /\ ~(s.logged_in /\ s.role = "admin")) =>
           /\ resp'.status = "files_redirect"
           /\ resp'.out = <<>>
           /\ users' = users
           /\ fs' = fs

AdminGuardRejects == [][AdminOnlyPost]_vars

\* C11 witness: a logged-in session with role user asked for an admin route
\* and was turned away
UserTurnedAwayFromAdmin ==
    /\ resp.op \in {"admin", "admin_actions"}
    /\ resp.status = "files_redirect"
    /\ session[resp.client].logged_in
    /\ session[resp.client].role = "user"

\* C12: a request to list, upload, download, view raw, delete, bulk-delete,
\* bulk-download, update statistics or log out that comes from a session
\* which is not logged in is answered with the redirect to the login page
\* and leaves the files, the statistics map and the accounts map unchanged.
GuardedOps ==
    {"files", "upload", "download", "files_raw", "delete", "bulk_delete",
     "bulk_download", "update_stats", "logout"}

LoginGuardPost ==
    (resp'.op \in GuardedOps /\ ~session[resp'.client].logged_in) =>
        /\ resp'.status = "login_redirect"
        /\ resp'.out = <<>>
        /\ fs' = fs
        /\ file_stats' = file_stats
        /\ users' = users
        /\ session' = session

LoginGuardRejects == [][LoginGuardPost]_vars

\* C12 witness: a request was turned away at the login guard while the
\* directory holds an uploaded file with a statistics record
TurnedAwayWithFiles ==
    /\ resp.op \in GuardedOps
    /\ resp.status = "login_redirect"
    /\ listed(fs) # {}
    /\ DOMAIN file_stats # {}

\* C13: a logout that is carried out leaves the session of that client with
\* no logged_in, username or role, and touches no other session; a session
\* that is not logged in has every request but login turned away; and it
\* becomes logged in again only by a login of that client that succeeds.
LogoutPost ==
    LET c == resp'.client IN
    /\ (resp'.op = "logout" /\ resp'.status = "ok") =>
           /\ session'[c] = NoSession
           /\ \A d \in Clients \ {c} : session'[d] = session[d]
    /\ (resp'.op # "login" /\ ~session[c].logged_in) =>
           /\ resp'.status \in {"login_redirect", "files_redirect"}
           /\ session' = session
    /\ \A d \in Clients :
           (~session[d].logged_in /\ session'[d].logged_in) =>
               /\ resp'.op = "login"
               /\ resp'.status = "ok"
               /\ resp'.client = d

LogoutEndsSession == [][LogoutPost]_vars

\* C13 witness: a client has logged out while the other one stays logged in
LoggedOutOtherStays ==
    /\ resp.op = "logout"
    /\ resp.status = "ok"
    /\ session[resp.client] = NoSession
    /\ \E d \in Clients \ {resp.client} : session[d].logged_in

(***************************************************************************)
(* Properties of upload and of the listing.                                *)
(***************************************************************************)
\* C14: an uploaded file is accepted exactly when its size is at most
\* max_file_size and the allow-list is empty or holds its extension.  The
\* answer counts the accepted files, each of which is stored and has a
\* statistics record; a file that is turned away is not written and gets no
\* record.
Acceptable(file) ==
    /\ file.filename # <<>>
    /\ Len(file.data) <= config.max_file_size
    /\ \/ config.allowed_extensions = {}
       \/ extension(file.filename) \in config.allowed_extensions

UploadPost ==
    LET l == resp'.arg
        acc == {i \in 1..Len(l) : Acceptable(l[i])}
        rej == {i \in 1..Len(l) :
                   /\ l[i].filename # <<>>
                   /\ \A j \in acc : l[j].filename # l[i].filename}
    IN  /\ resp'.out = Cardinality(acc)
        /\ \A i \in acc :
               /\ exists(fs', file_path(l[i].filename))
               /\ l[i].filename \in DOMAIN file_stats'
        /\ \A i \in rej :
               LET path == file_path(l[i].filename) IN
               /\ exists(fs', path) <=> exists(fs, path)
               /\ exists(fs, path) => fs'[path] = fs[path]
               /\ l[i].filename \in DOMAIN file_stats' =>
                      l[i].filename \in DOMAIN file_stats

UploadAcceptsIffAllowed ==
    [][(resp'.op = "upload" /\ resp'.status = "ok") => UploadPost]_vars

\* C14 witness: with an empty allow-list, of two files the one of
\* max_file_size + 1 bytes was turned away and the .exe file was stored
TooLargeSkippedExeStored ==
    /\ config.allowed_extensions = {}
    /\ resp.op = "upload"
    /\ resp.status = "ok"
    /\ Len(resp.arg) = 2
    /\ Len(resp.arg[1].data) = config.max_file_size + 1
    /\ resp.arg[2].filename = FX
    /\ resp.out = 1
    /\ ~exists(fs, file_path(resp.arg[1].filename))
    /\ exists(fs, file_path(FX))

\* C15: right after an upload, every file it accepted is stored under its
\* name with exactly the bytes sent (the last ones, when the request names
\* it twice), has a statistics record, and is what a download of that name
\* returns.
UploadRoundTrip ==
    (resp.op = "upload" /\ resp.status = "ok") =>
        LET l == resp.arg
            last == {i \in 1..Len(l) :
                        /\ Acceptable(l[i])
                        /\ \A j \in (i + 1)..Len(l) :
                               ~(Acceptable(l[j])
                                    /\ l[j].filename = l[i].filename)}
        IN  \A i \in last :
                LET name == l[i].filename
                    touched == update_file_stats(file_stats, name,
                                                 "download", clock + 1)
                    disk == save_json_file(fs, STATS_FILE, touched)
                IN  /\ exists(fs, file_path(name))
                    /\ fs[file_path(name)] = bytes_file(l[i].data)
                    /\ name \in DOMAIN file_stats
                    /\ send_from_directory(disk, name) =
                           [found |-> TRUE, data |-> l[i].data]

(***************************************************************************)
(* Properties of the statistics.                                           *)
(***************************************************************************)
\* the touches a request makes, in their order, as <<filename, action>>,
\* read off the request and its answer
Touches ==
    LET accepted(f) == Acceptable(f) IN
    IF resp'.status = "login_redirect" THEN <<>>
    ELSE IF resp'.op = "download" THEN <<<<resp'.arg, "download">>>>
    ELSE IF resp'.op = "update_stats" /\ resp'.status = "ok"
    THEN <<<<resp'.arg, resp'.out>>>>
    ELSE IF resp'.op = "upload" /\ resp'.status = "ok"
    THEN LET acc == SelectSeq(resp'.arg, accepted)
         IN  [i \in 1..Len(acc) |-> <<acc[i].filename, "upload">>]
    ELSE IF resp'.op = "bulk_download" /\ resp'.status = "ok"
    THEN [i \in 1..Len(resp'.out) |-> <<resp'.out[i][1], "download">>]
    ELSE <<>>

\* C16: every request adds to the views of a name the number of its view
\* touches and to its downloads the number of its download touches, counted
\* from zero when the name has no record; upload touches and touches with
\* another action add to neither; last_accessed becomes the time of the
\* last touch of the name; a record that is not touched does not change.
\* By induction over a series of requests that starts with no record, the
\* counters are the numbers of touches.
CountersPost ==
    LET T == Touches IN
    /\ clock' = clock + Len(T)
    /\ \/ T = <<>> /\ file_stats' = file_stats
       \/ \A n \in Range([i \in 1..Len(T) |-> T[i][1]])
                    \cup DOMAIN file_stats' :
           LET at == {i \in 1..Len(T) : T[i][1] = n}
               v == Cardinality({i \in at : T[i][2] = "view"})
               d == Cardinality({i \in at : T[i][2] = "download"})
               had == n \in DOMAIN file_stats
           IN  IF at # {}
               THEN /\ n \in DOMAIN file_stats'
                    /\ file_stats'[n].views =
                           (IF had THEN file_stats[n].views ELSE 0) + v
                    /\ file_stats'[n].downloads =
                           (IF had THEN file_stats[n].downloads ELSE 0) + d
                    /\ file_stats'[n].last_accessed =
                           clock + (CHOOSE i \in at : \A j \in at : j <= i)
               ELSE had /\ file_stats'[n] = file_stats[n]

CountersCountTouches == [][CountersPost]_vars

\* C16 witness: a record made by an upload at time 1 and viewed at time 2
UploadedThenViewed ==
    /\ FA \in DOMAIN file_stats
    /\ file_stats[FA].uploaded = 1
    /\ file_stats[FA].views = 1
    /\ file_stats[FA].downloads = 0
    /\ file_stats[FA].last_accessed = 2
    /\ resp.op = "update_stats"

\* C17: the archive holds, in the order asked, exactly the requested names
\* that have a file, each with the content of the file; each entry costs
\* its name one download touch and a requested name without a file gets
\* none; no file but the rewritten statistics record changes.
ArchivePost ==
    LET l == resp'.arg
        has(n) == exists(fs, file_path(n))
        inc == SelectSeq(l, has)
    IN  /\ resp'.status = "ok"
        /\ resp'.out = [i \in 1..Len(inc) |->
                           <<inc[i], fs[file_path(inc[i])].data>>]
        /\ \A n \in Range(l) :
               IF has(n)
               THEN /\ n \in DOMAIN file_stats'
                    /\ file_stats'[n].downloads =
                           (IF n \in DOMAIN file_stats
                            THEN file_stats[n].downloads ELSE 0)
                           + Cardinality({i \in 1..Len(l) : l[i] = n})
               ELSE /\ n \in DOMAIN file_stats' <=> n \in DOMAIN file_stats
                    /\ n \in DOMAIN file_stats =>
                           file_stats'[n] = file_stats[n]
        /\ \A q \in (DOMAIN fs) \ {STATS_FILE} :
               exists(fs', q) /\ fs'[q] = fs[q]
        /\ DOMAIN fs' \subseteq (DOMAIN fs) \cup {STATS_FILE}

LacksField ==
    \/ resp'.op = "login" /\ None \in {resp'.arg[1], resp'.arg[2]}
    \/ /\ resp'.op = "admin_actions"
       /\ resp'.status # "files_redirect"
       /\ \/ resp'.arg.action = None
          \/ resp'.arg.username = None
          \/ resp'.arg.action = "add_user" /\ resp'.arg.password = None

\* C18: a login, add_user or delete_user request that lacks a field ends in
\* an error result of the handler, not in an exception that leaves it, and
\* changes neither the accounts, the sessions, the statistics nor the files.
MissingFieldPost ==
    LacksField =>
        /\ resp'.status \in {"invalid", "required", "cannot_delete",
                              "no_action"}
        /\ users' = users
        /\ session' = session
        /\ file_stats' = file_stats
        /\ fs' = fs

MissingFieldIsErrorResult == [][MissingFieldPost]_vars

\* C19: every account of the accounts map has the role user or admin.
RolesAreUserOrAdmin ==
    \A u \in DOMAIN users : users[u].role \in {"user", "admin"}

\* C20: the listing holds, once each, exactly the regular files directly in
\* the managed directory whose name does not start with a dot, is none of
\* the three record names and does not end in .py, .pyc, .bat or .log; it
\* is in ascending order of the lower-cased names; and asking for it
\* changes no state.
ListPost ==
    LET out == resp'.out
        entries == {q[Len(ROOT) + 1] : q \in {p \in DOMAIN fs : InManaged(p)}}
        reserved == {<<".", "p", "y">>, <<".", "p", "y", "c">>,
                     <<".", "b", "a", "t">>, <<".", "l", "o", "g">>}
        want == {n \in entries :
                    /\ Append(ROOT, n) \in DOMAIN fs
                    /\ n[1] # "."
                    /\ n \notin {CONFIG_NAME, USERS_NAME, STATS_NAME}
                    /\ \A e \in reserved : ~endswith(n, e)}
    IN  /\ Range(out) = want
        /\ Len(out) = Cardinality(want)
        /\ \A i \in 1..Len(out) : \A j \in (i + 1)..Len(out) :
               ~str_lt(lower(out[j]), lower(out[i]))
        /\ UNCHANGED <<fs, users, file_stats, session, clock, config>>

ListShowsSortedVisible ==
    [][(resp'.op = "files" /\ resp'.status = "ok") => ListPost]_vars

\* C20 witness: a listing of a.txt before B.TXT
ListedLowerBeforeUpper ==
    /\ resp.op = "files"
    /\ resp.status = "ok"
    /\ resp.out = <<FA, FB>>

(***************************************************************************)
(* Properties of the persisted records.                                    *)
(***************************************************************************)
\* C21: after every request the accounts record and the statistics record
\* on disk hold what the process holds in memory, so that loading them at a
\* restart (app.py:90-91) gives the accounts map and the statistics map the
\* process had.
PersistedEqualsMemory ==
    /\ load_json_file(fs, USERS_FILE, DEFAULT_USERS) = users
    /\ load_json_file(fs, STATS_FILE, EmptyMap) = file_stats

(***************************************************************************)
(* Properties of an interrupted bulk delete.                               *)
(***************************************************************************)
\* C23: a bulkDelete that ends in an error was interrupted at some k-th
\* name, whose file is still there.  Of the names before k, those that had a
\* file have neither the file nor a statistics record afterwards; the file
\* and the record of every other name, the k-th and the later ones included,
\* are as before; no other file appears or disappears.
BulkInterruptedPost ==
    LET l == resp'.arg IN
    \E k \in 1..Len(l) :
        LET gone == {l[i] : i \in {j \in 1..(k - 1) :
                                      exists(fs, file_path(l[j]))}}
            gone_paths == {file_path(n) : n \in gone}
        IN  /\ resp'.out = l[k]
            /\ l[k] \notin gone
            /\ exists(fs', file_path(l[k]))
            /\ DOMAIN fs' = (DOMAIN fs) \ gone_paths
            /\ \A q \in (DOMAIN fs') \ {STATS_FILE} : fs'[q] = fs[q]
            /\ DOMAIN file_stats' = (DOMAIN file_stats) \ gone
            /\ \A n \in DOMAIN file_stats' : file_stats'[n] = file_stats[n]

BulkDeleteInterruptedPrefix ==
    [][(resp'.op = "bulk_delete" /\ resp'.status = "error") =>
          BulkInterruptedPost]_vars

\* C23 witness: of two names, each with a file and a record, the removal of
\* the second one raised: the first has neither file nor record, the second
\* has both
BulkDeleteStoppedAtSecond ==
    /\ resp.op = "bulk_delete"
    /\ resp.status = "error"
    /\ Len(resp.arg) = 2
    /\ resp.out = resp.arg[2]
    /\ file_path(resp.arg[1]) \in ever
    /\ ~exists(fs, file_path(resp.arg[1]))
    /\ resp.arg[1] \notin DOMAIN file_stats
    /\ exists(fs, file_path(resp.arg[2]))
    /\ resp.arg[2] \in DOMAIN file_stats

(***************************************************************************)
(* Properties of the life of a statistics record.                          *)
(***************************************************************************)
\* C27: in every step, a record that is in the map before and after it has
\* its downloads and its views not lowered and its uploaded time unchanged;
\* a record leaves the map only in a delete or a bulkDelete that names it;
\* and an upload leaves the downloads, views and uploaded of every record
\* that existed as they were, and changes the last_accessed of exactly the
\* names it accepted, to a reading of the clock taken during the request.
RecordFramePost ==
    /\ \A n \in DOMAIN file_stats :
           IF n \in DOMAIN file_stats'
           THEN /\ file_stats'[n].downloads >= file_stats[n].downloads
                /\ file_stats'[n].views >= file_stats[n].views
                /\ file_stats'[n].uploaded = file_stats[n].uploaded
           ELSE IF resp'.op = "delete" THEN resp'.arg = n
           ELSE resp'.op = "bulk_delete" /\ n \in Range(resp'.arg)
    /\ (resp'.op = "upload" /\ resp'.status = "ok") =>
           LET l == resp'.arg
               acc == {l[i].filename : i \in {j \in 1..Len(l) :
                                                 Acceptable(l[j])}}
           IN  \A n \in DOMAIN file_stats :
                   /\ n \in DOMAIN file_stats'
                   /\ file_stats'[n].downloads = file_stats[n].downloads
                   /\ file_stats'[n].views = file_stats[n].views
                   /\ file_stats'[n].uploaded = file_stats[n].uploaded
                   /\ IF n \in acc
                      THEN file_stats'[n].last_accessed \in
                               (clock + 1)..clock'
                      ELSE file_stats'[n] = file_stats[n]

UploadKeepsCounters == [][RecordFramePost]_vars

\* C27 witness: a.txt, whose record was made by a download at time 1, was
\* uploaded at time 2: one download, uploaded at 1, last accessed at 2
UploadedOverDownloaded ==
    /\ resp.op = "upload"
    /\ resp.status = "ok"
    /\ resp.out = 1
    /\ resp.arg[1].filename = FA
    /\ FA \in DOMAIN file_stats
    /\ file_stats[FA] = [downloads |-> 1, views |-> 0, uploaded |-> 1,
                         last_accessed |-> 2]

(***************************************************************************)
(* Properties of a session whose account changes.                          *)
(***************************************************************************)
\* C24: the session of a client changes only in a login or a logout of that
\* client, so deleting or adding an account leaves every session, with the
\* role it got at login, as it was; and a request passes login_required
\* when its session is logged in and admin_required when its session is
\* logged in with role admin, whether or not the session's username is
\* still a key of the accounts map.
SessionOnlyPost ==
    LET c == resp'.client
        s == session[c]
    IN  /\ \A d \in Clients :
               session'[d] # session[d] =>
                   /\ c = d
                   /\ \/ resp'.op = "login" /\ resp'.status = "ok"
                      \/ resp'.op = "logout" /\ resp'.status = "ok"
        /\ (resp'.op = "logout" /\ s.logged_in) =>
               resp'.status # "login_redirect"
        /\ (resp'.op \in {"admin", "admin_actions"}
                /\ s.logged_in /\ s.role = "admin") =>
               resp'.status # "files_redirect"

GuardsReadSessionOnly == [][SessionOnlyPost]_vars

\* C24 witness: the admin panel was served to a session whose account has
\* been deleted
DeletedAccountStillAdmin ==
    /\ resp.op = "admin"
    /\ resp.status = "ok"
    /\ session[resp.client].logged_in
    /\ session[resp.client].username \notin DOMAIN users

(***************************************************************************)
(* The handlers that take a name, asked for the files the listing hides.   *)
(* The server has run before: users.json holds a second account, of role   *)
(* user.                                                                   *)
(***************************************************************************)
TWO_USERS ==
    [u \in {"admin", "bob"} |->
        IF u = "admin" THEN DEFAULT_USERS["admin"]
        ELSE [password_hash |-> hash_password("pw"), role |-> "user",
              created |-> 0]]

HiddenBoot == [Boot EXCEPT ![USERS_FILE] = json_file(TWO_USERS)]

InitHidden == Loaded(HiddenBoot)

HiddenBatches ==
    {<<>>} \cup {<<n>> : n \in HiddenNames}
        \cup {<<STATS_NAME, n>> : n \in HiddenNames}
        \cup {<<n, STATS_NAME>> : n \in HiddenNames}

NextHidden ==
    \/ \E u \in Usernames, p \in Passwords : login(FileClient, u, p)
    \/ files(FileClient)
    \/ \E n \in HiddenNames : download(FileClient, n)
    \/ \E n \in HiddenNames, ok \in BOOLEAN : delete(FileClient, n, ok)
    \/ \E d \in BulkBodies(HiddenBatches) : \E k \in 0..Len(d.files) :
          bulk_delete(FileClient, d, k)
    \/ \E b \in HiddenBatches : bulk_download(FileClient, b)

SpecHidden == InitHidden /\ [][NextHidden]_vars

(***************************************************************************)
(* Properties of the hidden files.                                         *)
(***************************************************************************)
\* C25: for a session that is logged in, with whatever role, and a name
\* whose file exists in the managed directory, hidden by the listing or not:
\* delete removes the file unless os.remove itself fails, and never answers
\* NotFound; bulkDelete counts and removes it; download serves the content
\* the file has; the archive holds an entry for it.  (The statistics record
\* file_stats.json is rewritten by the saves the same request makes, so it
\* is removed and may be there again, and is served as those saves left it,
\* also when it is first made by a touch of the same request.)
HiddenActedOnPost ==
    LET has(n) == exists(fs, file_path(n))
        kept(n) == file_path(n) # STATS_FILE
    IN  /\ Handled("delete") =>
               LET n == resp'.arg IN
               has(n) =>
                   /\ resp'.status \in {"deleted", "error"}
                   /\ resp'.status = "deleted" =>
                          /\ n \notin DOMAIN file_stats'
                          /\ kept(n) => ~exists(fs', file_path(n))
        /\ (Handled("bulk_delete") /\ resp'.status = "ok") =>
               LET had == {n \in Range(resp'.arg) : has(n)} IN
               /\ resp'.out = Cardinality(had)
               /\ \A n \in had :
                      /\ n \notin DOMAIN file_stats'
                      /\ kept(n) => ~exists(fs', file_path(n))
        /\ Handled("download") =>
               LET n == resp'.arg IN
               has(n) =>
                   /\ resp'.status = "ok"
                   /\ resp'.out = fs'[file_path(n)].data
                   /\ kept(n) => resp'.out = fs[file_path(n)].data
        /\ Handled("bulk_download") =>
               LET has_kept(n) == has(n) /\ kept(n)
                   entry_kept(e) == kept(e[1])
                   inc == SelectSeq(resp'.arg, has_kept)
               IN  /\ resp'.status = "ok"
                   /\ SelectSeq(resp'.out, entry_kept) =
                          [i \in 1..Len(inc) |->
                              <<inc[i], fs[file_path(inc[i])].data>>]
                   /\ \A n \in Range(resp'.arg) :
                          has(n) => \E i \in 1..Len(resp'.out) :
                                        resp'.out[i][1] = n

FilterGuardsListingOnly == [][HiddenActedOnPost]_vars

\* C25 witness: a session of role user has deleted users.json, which the
\* listing never showed
UserDeletedAccountsFile ==
    /\ resp.op = "delete"
    /\ resp.status = "deleted"
    /\ resp.arg = USERS_NAME
    /\ session[resp.client].role = "user"
    /\ ~exists(fs, USERS_FILE)
    /\ USERS_NAME \notin Range(get_file_list(HiddenBoot))

(***************************************************************************)
(* The handlers that touch or delete a statistics record, run by worker    *)
(* threads that interleave.  A step is a stretch of a handler that reads   *)
(* or writes shared state once: the interpreter can switch threads between *)
(* any two of them, and nothing in app.py holds a lock.  One name is       *)
(* asked for; its file lies in the managed directory at start-up.          *)
(***************************************************************************)
MaxServed == 3    \* number of requests given to the worker threads

ThreadName == FA
ThreadOps == {"download", "update_stats", "bulk_download", "delete"}

ThreadsBoot ==
    [p \in (DOMAIN Boot) \cup {file_path(ThreadName)} |->
        IF p = file_path(ThreadName) THEN bytes_file(<<7>>) ELSE Boot[p]]

InitThreads == Loaded(ThreadsBoot)

At(w, pc) == worker[w].pc = pc

Goto(w, pc) == worker' = [worker EXCEPT ![w].pc = pc]

\* the request of thread w is answered
Finish(w, status, out) ==
    /\ worker' = [worker EXCEPT ![w] = Idle]
    /\ resp' = Response(worker[w].op, FileClient, worker[w].name, status, out)

\* an exception leaves update_file_stats and is caught by the handler
\* (app.py:1280-1283, 1405-1410, 1421-1423)
TouchFails(w) ==
    /\ Finish(w, "error", <<>>)
    /\ served' = [served EXCEPT !.failed = @ + 1]
    /\ UNCHANGED <<config, fs, users, file_stats, session, clock, ever, added>>

\* app.py:94-100 and the first line of the handler: the request is turned
\* away, or a free thread takes it
Start(w, op) ==
    /\ At(w, "idle")
    /\ served.started < MaxServed
    /\ IF ~login_required(session[FileClient])
       THEN Rejected(op, FileClient, ThreadName, "login_redirect")
       ELSE /\ worker' = [worker EXCEPT ![w] =
                   [Idle EXCEPT !.op = op, !.name = ThreadName,
                                !.pc = IF op = "delete" THEN "exists"
                                       ELSE IF op = "bulk_download"
                                       THEN "zip_exists"
                                       ELSE "check"]]
            /\ served' = [served EXCEPT
                   !.started = @ + 1,
                   !.deletes = IF op = "delete" THEN @ + 1 ELSE @,
                   !.late = @ \/ (op # "delete" /\ served.deleted > 0)]
            /\ UNCHANGED <<config, fs, users, file_stats, session, clock,
                           ever, added, resp>>

\* app.py:1391  if os.path.exists(file_path), in the loop of bulk_download
ZipExists(w) ==
    /\ At(w, "zip_exists")
    /\ IF exists(fs, file_path(worker[w].name))
       THEN Goto(w, "zip_write") /\ UNCHANGED resp
       ELSE Finish(w, "ok", <<>>)
    /\ UNCHANGED <<config, fs, users, file_stats, session, clock, ever,
                   added, served>>

\* app.py:1392  zip_file.write(file_path, filename); it raises when the file
\* has been removed since the test
ZipWrite(w) ==
    /\ At(w, "zip_write")
    /\ IF exists(fs, file_path(worker[w].name))
       THEN Goto(w, "check") /\ UNCHANGED resp
       ELSE Finish(w, "error", <<>>)
    /\ UNCHANGED <<config, fs, users, file_stats, session, clock, ever,
                   added, served>>

\* app.py:120  if filename not in file_stats
Check(w) ==
    /\ At(w, "check")
    /\ Goto(w, IF worker[w].name \in DOMAIN file_stats THEN "load"
               ELSE "create")
    /\ UNCHANGED <<config, fs, users, file_stats, session, clock, ever,
                   added, served, resp>>

\* app.py:121-126  file_stats[filename] = {...}: a new record, which takes
\* the place of one another thread has put there since the test.  No two
\* records of a run have the same uploaded time.
Create(w) ==
    /\ At(w, "create")
    /\ clock' = clock + 1
    /\ file_stats' = Extend(file_stats, worker[w].name,
                            [downloads |-> 0, views |-> 0,
                             uploaded |-> clock + 1, last_accessed |-> None])
    /\ Goto(w, "load")
    /\ UNCHANGED <<config, fs, users, session, ever, added, served, resp>>

\* the counter the handler of thread w adds to
counter(w) == IF worker[w].op = "update_stats" THEN "views" ELSE "downloads"

\* app.py:128-131, the first half of += 1: the record is looked up, which
\* raises KeyError when it is gone, and its counter is read
Load(w) ==
    /\ At(w, "load")
    /\ IF worker[w].name \in DOMAIN file_stats
       THEN /\ worker' = [worker EXCEPT
                   ![w].pc = "store",
                   ![w].stamp = file_stats[worker[w].name].uploaded,
                   ![w].tmp = file_stats[worker[w].name][counter(w)]]
            /\ UNCHANGED <<config, fs, users, file_stats, session, clock,
                           ever, added, served, resp>>
       ELSE TouchFails(w)

\* the second half of += 1: the sum is stored into the record that was
\* looked up, which is no longer the record of the map when the name was
\* deleted, or deleted and made again, in between
Store(w) ==
    /\ At(w, "store")
    /\ file_stats' =
           IF /\ worker[w].name \in DOMAIN file_stats
              /\ file_stats[worker[w].name].uploaded = worker[w].stamp
           THEN [file_stats EXCEPT
                    ![worker[w].name][counter(w)] = worker[w].tmp + 1]
           ELSE file_stats
    /\ Goto(w, "last_accessed")
    /\ UNCHANGED <<config, fs, users, session, clock, ever, added, served,
                   resp>>

\* app.py:133  file_stats[filename]['last_accessed'] = now
LastAccessed(w) ==
    /\ At(w, "last_accessed")
    /\ IF worker[w].name \in DOMAIN file_stats
       THEN /\ clock' = clock + 1
            /\ file_stats' = [file_stats EXCEPT
                   ![worker[w].name].last_accessed = clock + 1]
            /\ Goto(w, "save")
            /\ UNCHANGED <<config, fs, users, session, ever, added, served,
                           resp>>
       ELSE TouchFails(w)

\* app.py:134  save_json_file(STATS_FILE, file_stats), taken to dump the map
\* as it is at one moment; update_file_stats returns, and update_stats and
\* bulk_download answer
Save(w) ==
    /\ At(w, "save")
    /\ fs' = save_json_file(fs, STATS_FILE, file_stats)
    /\ ever' = ever \cup DOMAIN fs'
    /\ served' = [served EXCEPT ![counter(w)] = @ + 1]
    /\ IF worker[w].op = "download"
       THEN Goto(w, "send") /\ UNCHANGED resp
       ELSE Finish(w, "ok",
                   IF worker[w].op = "bulk_download"
                   THEN <<worker[w].name>> ELSE <<>>)
    /\ UNCHANGED <<config, users, file_stats, session, clock, added>>

\* app.py:1279  send_from_directory(UPLOAD_FOLDER, filename)
Send(w) ==
    /\ At(w, "send")
    /\ LET sent == send_from_directory(fs, worker[w].name) IN
       IF sent.found THEN Finish(w, "ok", sent.data)
       ELSE Finish(w, "error", <<>>)
    /\ UNCHANGED <<config, fs, users, file_stats, session, clock, ever,
                   added, served>>

\* app.py:1336  if os.path.exists(file_path), in delete
DeleteExists(w) ==
    /\ At(w, "exists")
    /\ IF exists(fs, file_path(worker[w].name))
       THEN Goto(w, "remove") /\ UNCHANGED resp
       ELSE Finish(w, "not_found", <<>>)
    /\ UNCHANGED <<config, fs, users, file_stats, session, clock, ever,
                   added, served>>

\* app.py:1337  os.remove(file_path); it raises when another delete has
\* removed the file since the test
DeleteRemove(w) ==
    /\ At(w, "remove")
    /\ IF exists(fs, file_path(worker[w].name))
       THEN /\ fs' = os_remove(fs, file_path(worker[w].name))
            /\ Goto(w, "in_stats")
            /\ UNCHANGED resp
       ELSE Finish(w, "error", <<>>) /\ UNCHANGED fs
    /\ UNCHANGED <<config, users, file_stats, session, clock, ever, added,
                   served>>

\* app.py:1339  if filename in file_stats
DeleteInStats(w) ==
    /\ At(w, "in_stats")
    /\ IF worker[w].name \in DOMAIN file_stats
       THEN Goto(w, "del") /\ UNCHANGED <<resp, served>>
       ELSE /\ Finish(w, "deleted", <<>>)
            /\ served' = [served EXCEPT !.deleted = @ + 1]
    /\ UNCHANGED <<config, fs, users, file_stats, session, clock, ever,
                   added>>

\* app.py:1340  del file_stats[filename]; KeyError when another delete has
\* taken the record since the test
DeleteDel(w) ==
    /\ At(w, "del")
    /\ IF worker[w].name \in DOMAIN file_stats
       THEN /\ file_stats' = Remove(file_stats, worker[w].name)
            /\ Goto(w, "save_deleted")
            /\ UNCHANGED resp
       ELSE Finish(w, "error", <<>>) /\ UNCHANGED file_stats
    /\ UNCHANGED <<config, fs, users, session, clock, ever, added, served>>

\* app.py:1341-1343  save_json_file(STATS_FILE, file_stats) and the answer
DeleteSave(w) ==
    /\ At(w, "save_deleted")
    /\ fs' = save_json_file(fs, STATS_FILE, file_stats)
    /\ ever' = ever \cup DOMAIN fs'
    /\ Finish(w, "deleted", <<>>)
    /\ served' = [served EXCEPT !.deleted = @ + 1]
    /\ UNCHANGED <<config, users, file_stats, session, clock, added>>

NextThreads ==
    \/ \E p \in Passwords : login(FileClient, "admin", p)
    \/ \E w \in Workers, op \in ThreadOps : Start(w, op)
    \/ \E w \in Workers : ZipExists(w)
    \/ \E w \in Workers : ZipWrite(w)
    \/ \E w \in Workers : Check(w)
    \/ \E w \in Workers : Create(w)
    \/ \E w \in Workers : Load(w)
    \/ \E w \in Workers : Store(w)
    \/ \E w \in Workers : LastAccessed(w)
    \/ \E w \in Workers : Save(w)
    \/ \E w \in Workers : Send(w)
    \/ \E w \in Workers : DeleteExists(w)
    \/ \E w \in Workers : DeleteRemove(w)
    \/ \E w \in Workers : DeleteInStats(w)
    \/ \E w \in Workers : DeleteDel(w)
    \/ \E w \in Workers : DeleteSave(w)

SpecThreads == InitThreads /\ [][NextThreads]_vars

(***************************************************************************)
(* Properties of requests that run at the same time.                       *)
(***************************************************************************)
AllIdle == \A w \in Workers : At(w, "idle")

\* C22: touches of one record are serialized and none is lost: once the
\* threads have answered all their requests, and none of them was a delete,
\* the downloads of the name are the number of download touches that were
\* carried out and its views the number of view touches.
NoLostUpdate ==
    (AllIdle /\ served.deletes = 0 /\ served.downloads + served.views > 0) =>
        /\ ThreadName \in DOMAIN file_stats
        /\ file_stats[ThreadName].downloads = served.downloads
        /\ file_stats[ThreadName].views = served.views

\* C26: no touch fails because its record was removed while it ran; and
\* once a delete of the name has succeeded and every request has been
\* answered, none of them a touch that began after a delete had finished,
\* the statistics map has no record for the name.
DeleteWinsRace ==
    /\ served.failed = 0
    /\ (AllIdle /\ served.deleted > 0 /\ ~served.late) =>
           ThreadName \notin DOMAIN file_stats

====
